---- MODULE Spec2Model ----
(***************************************************************************)
(* Model of the OAuth2 client of dracoon-oxide (src/src/core.rs): the      *)
(* DRACOONClient struct, its connect / check_access_token_validity /       *)
(* test_connection / disconnect operations, the three flow handlers and    *)
(* the response parser.  The provider and the transport are the            *)
(* environment: every request the client sends is answered by a            *)
(* nondeterministically chosen response (or a transport failure).          *)
(* Time is counted in ticks of 1/TicksPerSecond second, so that            *)
(* Duration::num_seconds() is a real truncation.                           *)
(***************************************************************************)
EXTENDS Integers, Sequences, FiniteSets, TLC

\* ------------------------------------------------------------------ bounds
MaxClock == 4
MaxLifetime == 1
TicksPerSecond == 2

\* ------------------------------------------------ constants of core.rs
GRANT_TYPE_PASSWORD == "password"
GRANT_TYPE_AUTH_CODE == "authorization_code"
GRANT_TYPE_REFRESH_TOKEN == "refresh_token"
TOKEN_TYPE_HINT_ACCESS == "access_token"
DRACOON_TOKEN_URL == "oauth/token"
DRACOON_REDIRECT_URL == "oauth/callback"
DRACOON_TOKEN_REVOKE_URL == "oauth/revoke"
DRACOON_AUTHENTICATED_PING == "user/ping"
StatusOK == 200

\* ------------------------------------------------------ input domains
BaseUrls == {"https://example.com/"}
ClientIds == {"abc"}
ClientSecrets == {"s3cret"}
UserNames == {"u"}
Passwords == {"p"}
AuthCodes == {"c"}
\* The token pairs the provider issues, the values of expires_in_inactive
\* (0 .. MaxLifetime seconds) and of expires_in.
IssuedTokens ==
    {[access_token |-> "at1", refresh_token |-> "rt1"],
     [access_token |-> "at2", refresh_token |-> "rt2"]}
InactiveLifetimes == 0..MaxLifetime
Lifetimes == {MaxLifetime + 3}
Statuses == {StatusOK, 401}
ErrorNames == {"invalid_grant"}
\* Ticks an HTTP exchange may take.
Latencies == {0, 1}

\* Option<T>
None == [tag |-> "None"]
Some(v) == [tag |-> "Some", val |-> v]
IsSome(o) == o.tag = "Some"

\* Result<T, DRACOONClientError>
Ok(v) == [tag |-> "Ok", val |-> v]
Err(kind, v) == [tag |-> "Err", kind |-> kind, val |-> v]
IsOk(r) == r.tag = "Ok"
IsErr(r, kind) == r.tag = "Err" /\ r.kind = kind

\* enum DRACOONClientError
RequestFailed(e) == Err("RequestFailed", e)
MissingArguments == Err("MissingArguments", [unit |-> TRUE])
BrokenConnection == Err("BrokenConnection", [unit |-> TRUE])
DRACOONErrror(body) == Err("DRACOONErrror", body)

\* impl From<reqwest::Error> for DRACOONClientError (the `?` operator)
From(e) == RequestFailed(e)

\* enum OAuth2ConnectionType
PasswordFlow(u, p) == [type |-> "PasswordFlow", user_name |-> u, password |-> p]
AuthCode(c) == [type |-> "AuthCode", auth_code |-> c]
RefreshToken == [type |-> "RefreshToken"]
OAuth2ConnectionType ==
    {PasswordFlow(u, p) : u \in UserNames, p \in Passwords}
        \cup {AuthCode(c) : c \in AuthCodes}
        \cup {RefreshToken}

\* --------------------------------------------- what the provider sends
\* A JSON body that decodes as OAuth2TokenResponse.
TokenBodies ==
    {[json |-> "token", access_token |-> k.access_token,
      refresh_token |-> k.refresh_token, expires_in |-> e,
      expires_in_inactive |-> i] :
        k \in IssuedTokens, e \in Lifetimes, i \in InactiveLifetimes}
\* A JSON body with the fields of DRACOONErrorResponse.
ErrorBodies == [json : {"error"}, error : ErrorNames]
\* A body that is no JSON object at all (empty, HTML of a gateway, ...).
GarbageBody == [json |-> "garbage"]
Bodies == TokenBodies \cup ErrorBodies \cup {GarbageBody}

\* send().await: Err(reqwest::Error) or a Response with a status and a body.
SendError == [sent |-> FALSE, error |-> [reqwest |-> "connect"]]
HttpResponse(status, body) == [sent |-> TRUE, status |-> status, body |-> body]
\* Answers of the token endpoint.
TokenAnswers == {SendError} \cup {HttpResponse(s, b) : s \in Statuses, b \in Bodies}
\* Answers of the ping and the revoke endpoint (their bodies are never read).
PlainAnswers == {SendError} \cup {HttpResponse(s, GarbageBody) : s \in Statuses}

VARIABLES
    owned,          \* the caller holds a client handle (disconnect moves it)
    base_url,       \* DRACOONClient.base_url
    client_id,      \* DRACOONClient.client_id
    client_secret,  \* DRACOONClient.client_secret
    connection,     \* DRACOONClient.connection : Option<DRACOONConnection>
    connected,      \* DRACOONClient.connected
    now,            \* the clock read by Utc::now(), in ticks
    call,           \* the last call: operation, argument, client before it,
                    \* requests sent, answers received, result, and clock
                    \* at entry and return
    issued,         \* history: the token response of the last successful connect
    revoked,        \* history: disconnect succeeded and connect was not called since
    expired         \* history: check_access_token_validity returned false since
                    \* the last successful connect

vars ==
    <<owned, base_url, client_id, client_secret, connection, connected, now,
      call, issued, revoked, expired>>

\* The client as one value (`self`).
Self ==
    [base_url |-> base_url, client_id |-> client_id, client_secret |-> client_secret,
     connection |-> connection, connected |-> connected]

\* ------------------------------------------------------------- helpers
\* base64::encode, kept opaque: the encoding of a string is not the string.
Base64Encode(s) == [base64 |-> s]

\* DRACOONClient::client_credentials
client_credentials(self) == Base64Encode(self.client_id \o ":" \o self.client_secret)

\* DRACOONClient::get_token_url
get_token_url(self) == self.base_url \o DRACOON_TOKEN_URL

\* chrono::Duration::num_seconds of a duration of d ticks: whole seconds,
\* truncated toward zero.
num_seconds(d) ==
    IF d >= 0 THEN d \div TicksPerSecond ELSE 0 - ((0 - d) \div TicksPerSecond)

\* res.json::<OAuth2TokenResponse>(): every field but token_type is required.
DecodeTokenResponse(body) ==
    IF body.json = "token"
    THEN Some([access_token |-> body.access_token,
               refresh_token |-> body.refresh_token,
               expires_in |-> body.expires_in,
               expires_in_inactive |-> body.expires_in_inactive])
    ELSE None

\* res.json::<DRACOONErrorResponse>(): every field is optional and unknown
\* fields are ignored, so any JSON object decodes (a token body to an error
\* response with no field set); only a body that is no JSON object fails.
DecodeErrorResponse(body) ==
    CASE body.json = "error" -> Some([error |-> Some(body.error)])
      [] body.json = "token" -> Some([error |-> None])
      [] OTHER -> None

\* Mutant of create_connection: an existing connection keeps its refresh token.
create_connection_KeepsRefreshToken(self, token_response, t) ==
    [self EXCEPT
        !.connection =
            Some([connected_at |-> t,
                  access_token |-> token_response.access_token,
                  refresh_token |-> IF IsSome(self.connection)
                                    THEN self.connection.val.refresh_token
                                    ELSE token_response.refresh_token,
                  access_token_validity |-> token_response.expires_in_inactive,
                  refresh_token_validity |-> token_response.expires_in]),
        !.connected = TRUE]

\* Mutant of create_connection: the flag is set, the connection not stored.
create_connection_NotStored(self, token_response, t) ==
    [self EXCEPT !.connected = TRUE]

\* Mutant of create_connection: the lifetimes are stored under their names.
create_connection_Unswapped(self, token_response, t) ==
    [self EXCEPT
        !.connection =
            Some([connected_at |-> t,
                  access_token |-> token_response.access_token,
                  refresh_token |-> token_response.refresh_token,
                  access_token_validity |-> token_response.expires_in,
                  refresh_token_validity |-> token_response.expires_in_inactive]),
        !.connected = TRUE]

\* Mutant of create_connection: an existing connection keeps its timestamp.
create_connection_KeepsTimestamp(self, token_response, t) ==
    [self EXCEPT
        !.connection =
            Some([connected_at |-> IF IsSome(self.connection)
                                   THEN self.connection.val.connected_at
                                   ELSE t,
                  access_token |-> token_response.access_token,
                  refresh_token |-> token_response.refresh_token,
                  access_token_validity |-> token_response.expires_in_inactive,
                  refresh_token_validity |-> token_response.expires_in]),
        !.connected = TRUE]

\* DRACOONClient::create_connection at clock reading t
create_connection(self, token_response, t) ==
    [self EXCEPT
        !.connection =
            Some([connected_at |-> t,
                  access_token |-> token_response.access_token,
                  refresh_token |-> token_response.refresh_token,
                  access_token_validity |-> token_response.expires_in_inactive,
                  refresh_token_validity |-> token_response.expires_in]),
        !.connected = TRUE]

\* Mutant of get_connection: a missing connection reads as an empty one.
get_connection_Default(self) ==
    IF IsSome(self.connection)
    THEN Ok(self.connection.val)
    ELSE Ok([connected_at |-> 0, access_token |-> "", refresh_token |-> "",
             access_token_validity |-> 0, refresh_token_validity |-> 0])

\* DRACOONClient::get_connection
get_connection(self) ==
    IF IsSome(self.connection) THEN Ok(self.connection.val) ELSE BrokenConnection

\* Mutant of parse_login_response: a body that does not decode is reported
\* as a broken connection.
parse_login_response_DecodeBroken(res) ==
    IF res.status = StatusOK
    THEN LET t == DecodeTokenResponse(res.body)
         IN  IF IsSome(t) THEN Ok(t.val) ELSE BrokenConnection
    ELSE LET e == DecodeErrorResponse(res.body)
         IN  IF IsSome(e) THEN DRACOONErrror(e.val) ELSE BrokenConnection

\* Mutant of parse_login_response: a status other than 200 is reported as a
\* broken connection, its body unread.
parse_login_response_Broken(res) ==
    IF res.status = StatusOK
    THEN LET t == DecodeTokenResponse(res.body)
         IN  IF IsSome(t) THEN Ok(t.val) ELSE From([reqwest |-> "decode"])
    ELSE BrokenConnection

\* DRACOONClient::parse_login_response
parse_login_response(res) ==
    IF res.status = StatusOK
    THEN LET t == DecodeTokenResponse(res.body)
         IN  IF IsSome(t) THEN Ok(t.val) ELSE From([reqwest |-> "decode"])
    ELSE LET e == DecodeErrorResponse(res.body)
         IN  IF IsSome(e) THEN DRACOONErrror(e.val) ELSE From([reqwest |-> "decode"])

\* Mutant of Exchange: a request the transport failed to send is sent again.
Exchange_Retries(req, answer) ==
    IF answer.sent
    THEN [requests |-> <<req>>, result |-> parse_login_response(answer)]
    ELSE [requests |-> <<req, req>>, result |-> From(answer.error)]

\* The tail shared by the three flow handlers: send().await? and the parser.
\* answer is what the transport returns for the request req.
Exchange(req, answer) ==
    [requests |-> <<req>>,
     result |-> IF answer.sent THEN parse_login_response(answer)
                ELSE From(answer.error)]

\* DRACOONClient::connect_password_flow
connect_password_flow(self, user_name, password, answer) ==
    LET auth == [username |-> user_name, password |-> password,
                 grant_type |-> GRANT_TYPE_PASSWORD]
        req == [method |-> "POST", url |-> get_token_url(self), form |-> auth,
                authorization |-> Some(<<"Basic", client_credentials(self)>>)]
    IN  Exchange(req, answer)

\* Mutant of connect_refresh_token: without a connection an empty refresh
\* token is sent instead of failing.
connect_refresh_token_NoGuard(self, answer) ==
    LET auth == [client_id |-> self.client_id,
                 client_secret |-> self.client_secret,
                 refresh_token |-> IF IsSome(self.connection)
                                   THEN self.connection.val.refresh_token
                                   ELSE "",
                 grant_type |-> GRANT_TYPE_REFRESH_TOKEN]
        req == [method |-> "POST", url |-> get_token_url(self), form |-> auth,
                authorization |-> None]
    IN  [requests |-> <<req>>,
         result |-> IF answer.sent THEN parse_login_response(answer)
                    ELSE From(answer.error)]

\* DRACOONClient::connect_refresh_token
connect_refresh_token(self, answer) ==
    IF ~IsSome(self.connection)
    THEN [requests |-> <<>>, result |-> BrokenConnection]
    ELSE LET auth == [client_id |-> self.client_id,
                      client_secret |-> self.client_secret,
                      refresh_token |-> self.connection.val.refresh_token,
                      grant_type |-> GRANT_TYPE_REFRESH_TOKEN]
             req == [method |-> "POST", url |-> get_token_url(self), form |-> auth,
                     authorization |-> None]
         IN  Exchange(req, answer)

\* DRACOONClient::connect_auth_code
connect_auth_code(self, auth_code, answer) ==
    LET auth == [client_id |-> self.client_id,
                 client_secret |-> self.client_secret,
                 code |-> auth_code,
                 grant_type |-> GRANT_TYPE_AUTH_CODE,
                 redirect_uri |-> self.base_url \o DRACOON_REDIRECT_URL]
        req == [method |-> "POST", url |-> get_token_url(self), form |-> auth,
                authorization |-> None]
    IN  Exchange(req, answer)

\* Mutant of connect_dispatch: the authorization code goes to the password
\* flow handler.
connect_dispatch_Crossed(self, connection_type, answer) ==
    CASE connection_type.type = "AuthCode" ->
             connect_password_flow(self, connection_type.auth_code,
                                   connection_type.auth_code, answer)
      [] connection_type.type = "PasswordFlow" ->
             connect_password_flow(self, connection_type.user_name,
                                   connection_type.password, answer)
      [] connection_type.type = "RefreshToken" ->
             connect_refresh_token(self, answer)

\* DRACOONClient::connect, the dispatch on the flow selector: the requests
\* the chosen handler sent and the token response or error it returned.
connect_dispatch(self, connection_type, answer) ==
    CASE connection_type.type = "AuthCode" ->
             connect_auth_code(self, connection_type.auth_code, answer)
      [] connection_type.type = "PasswordFlow" ->
             connect_password_flow(self, connection_type.user_name,
                                   connection_type.password, answer)
      [] connection_type.type = "RefreshToken" ->
             connect_refresh_token(self, answer)

\* Mutant of connect_install: a failed exchange resets the client.
connect_install_ResetsOnError(self, token_response, t) ==
    IF ~IsOk(token_response)
    THEN [self |-> [self EXCEPT !.connection = None, !.connected = FALSE],
          result |-> token_response]
    ELSE LET after == create_connection(self, token_response.val, t)
         IN  [self |-> after, result |-> Ok(after.connection.val)]

\* DRACOONClient::connect, after the handler returned token_response (a
\* Result) at clock reading t: the client after the call and the result.
connect_install(self, token_response, t) ==
    IF ~IsOk(token_response)
    THEN [self |-> self, result |-> token_response]
    ELSE LET after == create_connection(self, token_response.val, t)
         IN  [self |-> after,
              result |-> IF IsSome(after.connection)
                         THEN Ok(after.connection.val)
                         ELSE BrokenConnection]

\* DRACOONClient::connect.  t is the clock when the handler has returned.
\* Yields the client after the call, the requests sent and the result.
connect(self, connection_type, answer, t) ==
    LET token_response == connect_dispatch(self, connection_type, answer)
        installed == connect_install(self, token_response.result, t)
    IN  [self |-> installed.self, requests |-> token_response.requests,
         result |-> installed.result]

\* Mutant of check_access_token_validity: the window is inclusive.
check_access_token_validity_Inclusive(self, t) ==
    IF ~IsSome(self.connection)
    THEN BrokenConnection
    ELSE LET conn == self.connection.val
         IN  Ok(num_seconds(t - conn.connected_at) <= conn.access_token_validity)

\* Mutant of check_access_token_validity: the subtraction is reversed.
check_access_token_validity_Reversed(self, t) ==
    IF ~IsSome(self.connection)
    THEN BrokenConnection
    ELSE LET conn == self.connection.val
         IN  Ok(num_seconds(conn.connected_at - t) < conn.access_token_validity)

\* DRACOONClient::check_access_token_validity at clock reading t
check_access_token_validity(self, t) ==
    IF ~IsSome(self.connection)
    THEN BrokenConnection
    ELSE LET conn == self.connection.val
         IN  Ok(num_seconds(t - conn.connected_at) < conn.access_token_validity)

\* Mutant of test_connection: a status other than 200 is an error.
test_connection_RejectedIsError(self, answer) ==
    LET conn == get_connection(self)
    IN  IF ~IsOk(conn)
        THEN [requests |-> <<>>, result |-> conn]
        ELSE LET req == [method |-> "GET",
                         url |-> self.base_url \o DRACOON_AUTHENTICATED_PING,
                         bearer_auth |-> conn.val.access_token]
             IN  [requests |-> <<req>>,
                  result |-> IF ~answer.sent THEN From(answer.error)
                             ELSE IF answer.status = StatusOK THEN Ok(TRUE)
                             ELSE BrokenConnection]

\* DRACOONClient::test_connection
test_connection(self, answer) ==
    LET api_url == self.base_url \o DRACOON_AUTHENTICATED_PING
        conn == get_connection(self)
    IN  IF ~IsOk(conn)
        THEN [requests |-> <<>>, result |-> conn]
        ELSE LET req == [method |-> "GET", url |-> api_url,
                         bearer_auth |-> conn.val.access_token]
             IN  [requests |-> <<req>>,
                  result |-> IF ~answer.sent THEN From(answer.error)
                             ELSE Ok(answer.status = StatusOK)]

\* Mutant of disconnect: revoke_refresh = Some(true) revokes the refresh token.
disconnect_RevokesRefresh(self, revoke_refresh, answer) ==
    IF ~IsSome(self.connection)
    THEN [requests |-> <<>>, result |-> BrokenConnection]
    ELSE LET refresh == revoke_refresh = Some(TRUE)
             req == [method |-> "POST",
                     url |-> self.base_url \o DRACOON_TOKEN_REVOKE_URL,
                     form |-> [token |-> IF refresh
                                         THEN self.connection.val.refresh_token
                                         ELSE self.connection.val.access_token,
                               token_type_hint |-> IF refresh
                                                   THEN GRANT_TYPE_REFRESH_TOKEN
                                                   ELSE TOKEN_TYPE_HINT_ACCESS,
                               client_id |-> self.client_id,
                               client_secret |-> self.client_secret]]
         IN  [requests |-> <<req>>,
              result |-> IF ~answer.sent THEN From(answer.error)
                         ELSE IF answer.status = StatusOK THEN Ok(self)
                         ELSE BrokenConnection]

\* Mutant of disconnect: any answer of the revoke endpoint counts as success.
disconnect_AnyStatus(self, revoke_refresh, answer) ==
    IF ~IsSome(self.connection)
    THEN [requests |-> <<>>, result |-> BrokenConnection]
    ELSE LET req == [method |-> "POST",
                     url |-> self.base_url \o DRACOON_TOKEN_REVOKE_URL,
                     form |-> [token |-> self.connection.val.access_token,
                               token_type_hint |-> TOKEN_TYPE_HINT_ACCESS,
                               client_id |-> self.client_id,
                               client_secret |-> self.client_secret]]
         IN  [requests |-> <<req>>,
              result |-> IF ~answer.sent THEN From(answer.error) ELSE Ok(self)]

\* Mutant of disconnect: on success the connection is dropped.
disconnect_DropsConnection(self, revoke_refresh, answer) ==
    IF ~IsSome(self.connection)
    THEN [requests |-> <<>>, result |-> BrokenConnection]
    ELSE LET req == [method |-> "POST",
                     url |-> self.base_url \o DRACOON_TOKEN_REVOKE_URL,
                     form |-> [token |-> self.connection.val.access_token,
                               token_type_hint |-> TOKEN_TYPE_HINT_ACCESS,
                               client_id |-> self.client_id,
                               client_secret |-> self.client_secret]]
         IN  [requests |-> <<req>>,
              result |-> IF ~answer.sent THEN From(answer.error)
                         ELSE IF answer.status = StatusOK
                         THEN Ok([self EXCEPT !.connection = None])
                         ELSE BrokenConnection]

\* Mutant of disconnect: on success the connected flag is cleared.
disconnect_ClearsFlag(self, revoke_refresh, answer) ==
    IF ~IsSome(self.connection)
    THEN [requests |-> <<>>, result |-> BrokenConnection]
    ELSE LET req == [method |-> "POST",
                     url |-> self.base_url \o DRACOON_TOKEN_REVOKE_URL,
                     form |-> [token |-> self.connection.val.access_token,
                               token_type_hint |-> TOKEN_TYPE_HINT_ACCESS,
                               client_id |-> self.client_id,
                               client_secret |-> self.client_secret]]
         IN  [requests |-> <<req>>,
              result |-> IF ~answer.sent THEN From(answer.error)
                         ELSE IF answer.status = StatusOK
                         THEN Ok([self EXCEPT !.connected = FALSE])
                         ELSE BrokenConnection]

\* DRACOONClient::disconnect.  The client is moved in; Ok carries it back.
disconnect(self, revoke_refresh, answer) ==
    LET conn == get_connection(self)
    IN  IF ~IsOk(conn)
        THEN [requests |-> <<>>, result |-> BrokenConnection]
        ELSE LET revoke_url == self.base_url \o DRACOON_TOKEN_REVOKE_URL
                 revoke_access == [token |-> conn.val.access_token,
                                   token_type_hint |-> TOKEN_TYPE_HINT_ACCESS,
                                   client_id |-> self.client_id,
                                   client_secret |-> self.client_secret]
                 req == [method |-> "POST", url |-> revoke_url,
                         form |-> revoke_access]
             IN  [requests |-> <<req>>,
                  result |-> IF ~answer.sent THEN From(answer.error)
                             ELSE IF answer.status = StatusOK THEN Ok(self)
                             ELSE BrokenConnection]

\* Mutant of get_code_url: the two format arguments are exchanged.
get_code_url_ArgsExchanged(self) ==
    LET authorize_url ==
            "oauth/authorize?branding=full&response_type=code&client_id="
                \o self.base_url \o "&redirect_uri=" \o self.client_id
                \o "oauth/callback&scope=all"
    IN  self.base_url \o authorize_url

\* DRACOONClient::get_code_url
get_code_url(self) ==
    LET authorize_url ==
            "oauth/authorize?branding=full&response_type=code&client_id="
                \o self.client_id \o "&redirect_uri=" \o self.base_url
                \o "oauth/callback&scope=all"
    IN  self.base_url \o authorize_url

\* Mutant of new: the client is born connected.
new_Connected(url, id, secret) ==
    [base_url |-> url, client_id |-> id, client_secret |-> secret,
     connection |-> None, connected |-> TRUE]

\* DRACOONClient::new
new(url, id, secret) ==
    [base_url |-> url, client_id |-> id, client_secret |-> secret,
     connection |-> None, connected |-> FALSE]

\* ------------------------------------------------------- state machine
\* The record kept of a call.
Call(op, arg, before, requests, answer, result, entered, returned) ==
    [op |-> op, arg |-> arg, before |-> before, requests |-> requests,
     answers |-> IF requests = <<>> THEN <<>> ELSE <<answer>>,
     result |-> result, entered |-> entered, returned |-> returned]

\* The variables of the client take the fields of the value s.
Install(s) ==
    /\ base_url' = s.base_url
    /\ client_id' = s.client_id
    /\ client_secret' = s.client_secret
    /\ connection' = s.connection
    /\ connected' = s.connected

Init ==
    \E url \in BaseUrls, id \in ClientIds, secret \in ClientSecrets :
        LET s == new(url, id, secret)
        IN  /\ owned = TRUE
            /\ base_url = s.base_url
            /\ client_id = s.client_id
            /\ client_secret = s.client_secret
            /\ connection = s.connection
            /\ connected = s.connected
            /\ now = 0
            /\ call = Call("new", <<url, id, secret>>, None, <<>>, None, Ok(s), 0, 0)
            /\ issued = None
            /\ revoked = FALSE
            /\ expired = FALSE

\* The caller constructs a client (again): DRACOONClient::new.
New ==
    \E url \in BaseUrls, id \in ClientIds, secret \in ClientSecrets :
        LET s == new(url, id, secret)
        IN  /\ ~owned
            /\ owned' = TRUE
            /\ Install(s)
            /\ call' = Call("new", <<url, id, secret>>, None, <<>>, None,
                            Ok(s), now, now)
            /\ issued' = None
            /\ revoked' = FALSE
            /\ expired' = FALSE
            /\ UNCHANGED now

\* Time passes between calls.
Tick ==
    /\ now < MaxClock
    /\ now' = now + 1
    /\ UNCHANGED <<owned, base_url, client_id, client_secret, connection,
                   connected, call, issued, revoked, expired>>

\* The time an operation takes: none when it sent nothing, one of
\* Latencies for an HTTP exchange.
Durations(requests) ==
    IF requests = <<>> THEN {0} ELSE {d \in Latencies : now + d <= MaxClock}

\* dracoon.connect(connection_type).await
Connect ==
    \E connection_type \in OAuth2ConnectionType, answer \in TokenAnswers :
      \E d \in Durations(connect(Self, connection_type, answer, now).requests) :
        LET r == connect(Self, connection_type, answer, now + d)
        IN  /\ owned
            /\ now' = now + d
            /\ Install(r.self)
            /\ call' = Call("connect", connection_type, Self, r.requests, answer,
                            r.result, now, now + d)
            /\ issued' = IF IsOk(r.result)
                         THEN DecodeTokenResponse(answer.body)
                         ELSE issued
            /\ revoked' = FALSE
            /\ expired' = IF IsOk(r.result) THEN FALSE ELSE expired
            /\ UNCHANGED owned

\* dracoon.check_access_token_validity()
CheckAccessTokenValidity ==
    LET r == check_access_token_validity(Self, now)
    IN  /\ owned
        /\ call' = Call("check_access_token_validity", <<>>, Self, <<>>, None,
                        r, now, now)
        /\ expired' = (expired \/ r = Ok(FALSE))
        /\ UNCHANGED <<owned, base_url, client_id, client_secret, connection,
                       connected, now, issued, revoked>>

\* dracoon.test_connection().await
TestConnection ==
    \E answer \in PlainAnswers :
      \E d \in Durations(test_connection(Self, answer).requests) :
        LET r == test_connection(Self, answer)
        IN  /\ owned
            /\ now' = now + d
            /\ call' = Call("test_connection", <<>>, Self, r.requests, answer,
                            r.result, now, now + d)
            /\ UNCHANGED <<owned, base_url, client_id, client_secret, connection,
                           connected, issued, revoked, expired>>

\* dracoon.disconnect(revoke_refresh).await: the handle is moved into the
\* call and comes back only inside Ok; on Err the client is dropped.
Disconnect ==
    \E revoke_refresh \in {None, Some(FALSE), Some(TRUE)}, answer \in PlainAnswers :
      \E d \in Durations(disconnect(Self, revoke_refresh, answer).requests) :
        LET r == disconnect(Self, revoke_refresh, answer)
        IN  /\ owned
            /\ now' = now + d
            /\ call' = Call("disconnect", revoke_refresh, Self, r.requests, answer,
                            r.result, now, now + d)
            /\ IF IsOk(r.result)
               THEN /\ owned' = TRUE
                    /\ Install(r.result.val)
                    /\ revoked' = TRUE
                    /\ UNCHANGED <<issued, expired>>
               ELSE /\ owned' = FALSE
                    /\ Install(new(base_url, client_id, client_secret))
                    /\ issued' = None
                    /\ revoked' = FALSE
                    /\ expired' = FALSE

\* dracoon.get_code_url()
GetCodeUrl ==
    /\ owned
    /\ call' = Call("get_code_url", <<>>, Self, <<>>, None, Ok(get_code_url(Self)),
                    now, now)
    /\ UNCHANGED <<owned, base_url, client_id, client_secret, connection,
                   connected, now, issued, revoked, expired>>

Next ==
    \/ New
    \/ Tick
    \/ Connect
    \/ CheckAccessTokenValidity
    \/ TestConnection
    \/ Disconnect
    \/ GetCodeUrl

Spec == Init /\ [][Next]_vars

\* get_code_url over more base URLs and client ids: the client is fresh, or
\* has connected once by the password flow, and then only builds the URL
\* while time passes.
CodeUrlBases ==
    {"https://example.com/", "https://dracoon.team/", "http://localhost:8080/"}
CodeUrlClientIds == {"abc", "XXXXXXXXXXXXXXXXXXXXXXXXXX", ""}

InitCodeUrl ==
    \E url \in CodeUrlBases, id \in CodeUrlClientIds, secret \in ClientSecrets :
        LET s == new(url, id, secret)
        IN  /\ owned = TRUE
            /\ base_url = url
            /\ client_id = id
            /\ client_secret = secret
            /\ now = 0
            /\ revoked = FALSE
            /\ expired = FALSE
            /\ \/ /\ connection = s.connection
                  /\ connected = s.connected
                  /\ call = Call("new", <<url, id, secret>>, None, <<>>, None,
                                 Ok(s), 0, 0)
                  /\ issued = None
               \/ \E u \in UserNames, p \in Passwords, body \in TokenBodies :
                      LET answer == HttpResponse(StatusOK, body)
                          r == connect(s, PasswordFlow(u, p), answer, 0)
                      IN  /\ connection = r.self.connection
                          /\ connected = r.self.connected
                          /\ call = Call("connect", PasswordFlow(u, p), s,
                                         r.requests, answer, r.result, 0, 0)
                          /\ issued = DecodeTokenResponse(body)

NextCodeUrl ==
    \/ Tick
    \/ GetCodeUrl

SpecCodeUrl == InitCodeUrl /\ [][NextCodeUrl]_vars

\* ------------------------------------------------------------- claims
\* What the last call was, and what the token endpoint answered in it.
Called(op) == call.op = op
Failed == call.result.tag = "Err"
Answered == call.answers # <<>> /\ call.answers[1].sent
HadConnection == IsSome(call.before.connection)
\* Ticks between the timestamp of the connection a call saw and the call.
Elapsed == call.entered - call.before.connection.val.connected_at
\* The validity window that call saw, in seconds.
Window == call.before.connection.val.access_token_validity

\* C1: a connect call that fails, for whatever reason (the refresh guard, a
\* transport failure, a status other than 200, an undecodable body), leaves
\* the Connection State and the connected flag as they were before the call.
C1_FailedConnectLeavesState ==
    (Called("connect") /\ Failed) =>
        /\ connection = call.before.connection
        /\ connected = call.before.connected

\* A connect on a connected client was refused by the provider.
C1_Witness ==
    /\ Called("connect")
    /\ IsErr(call.result, "DRACOONErrror")
    /\ HadConnection
    /\ connection = call.before.connection
    /\ connected

C3_DisconnectReturnsClientUnchanged ==
    (Called("disconnect") /\ Answered /\ call.answers[1].status = StatusOK) =>
        /\ owned
        /\ call.result = Ok(call.before)
        /\ Self = call.before

\* A connected client was disconnected with status 200.
C3_Witness ==
    /\ Called("disconnect")
    /\ Answered
    /\ call.answers[1].status = StatusOK
    /\ IsSome(connection)
    /\ connected

\* C4: without a Connection State, test_connection and disconnect fail with
\* BrokenConnection and send no request.
C4_GuardsFailFast ==
    ((Called("test_connection") \/ Called("disconnect")) /\ ~HadConnection) =>
        /\ call.result = BrokenConnection
        /\ call.requests = <<>>

\* disconnect was called on a client that never connected.
C4_Witness ==
    /\ Called("disconnect")
    /\ ~HadConnection
    /\ call.result = BrokenConnection
    /\ ~owned

\* C5: connect(RefreshToken) without a Connection State fails with
\* BrokenConnection, sends nothing, and leaves the client without one.
C5_RefreshNeedsConnection ==
    (Called("connect") /\ call.arg = RefreshToken /\ ~HadConnection) =>
        /\ call.result = BrokenConnection
        /\ call.requests = <<>>
        /\ connection = None

\* connect(RefreshToken) was called on a client without a Connection State.
C5_Witness ==
    /\ Called("connect")
    /\ call.arg = RefreshToken
    /\ ~HadConnection
    /\ call.result = BrokenConnection

\* C6: when the token endpoint answers 200 with a well-formed token body,
\* connect installs a Connection State built from that response alone (its
\* tokens and lifetimes, stamped with the clock read during the call), sets
\* the connected flag and returns the new state.
C6_SuccessInstallsResponse ==
    (Called("connect") /\ Answered /\ call.answers[1].status = StatusOK
        /\ call.answers[1].body \in TokenBodies) =>
        LET body == call.answers[1].body
            c == [connected_at |-> call.returned,
                  access_token |-> body.access_token,
                  refresh_token |-> body.refresh_token,
                  access_token_validity |-> body.expires_in_inactive,
                  refresh_token_validity |-> body.expires_in]
        IN  /\ connection = Some(c)
            /\ connected
            /\ call.result = Ok(c)
            /\ call.entered <= c.connected_at

\* A connect replaced an older Connection State holding other tokens.
C6_Witness ==
    /\ Called("connect")
    /\ ~Failed
    /\ HadConnection
    /\ call.before.connection.val.access_token # connection.val.access_token
    /\ call.before.connection.val.connected_at < connection.val.connected_at

\* C7 as claimed: whatever the body, a status other than 200 makes connect
\* fail with ProviderError.
C7_Non200IsProviderError ==
    (Called("connect") /\ Answered /\ call.answers[1].status # StatusOK) =>
        IsErr(call.result, "DRACOONErrror")

\* C7 as the code has it: a status other than 200 makes connect fail with
\* ProviderError carrying the decoded body when the body is a JSON object,
\* and with RequestFailed when the body cannot be decoded.
C7_Non200ByBody ==
    (Called("connect") /\ Answered /\ call.answers[1].status # StatusOK) =>
        LET body == call.answers[1].body
        IN  /\ body \in ErrorBodies =>
                call.result = DRACOONErrror([error |-> Some(body.error)])
            /\ body \in TokenBodies =>
                call.result = DRACOONErrror([error |-> None])
            /\ body = GarbageBody => IsErr(call.result, "RequestFailed")

\* The provider refused a connect with a structured error.
C7_Witness ==
    /\ Called("connect")
    /\ Answered
    /\ call.answers[1].status # StatusOK
    /\ call.answers[1].body \in ErrorBodies
    /\ IsErr(call.result, "DRACOONErrror")

\* C8: with a Connection State, check_access_token_validity is true exactly
\* when the whole seconds since connected_at are below the window; without
\* one it fails with BrokenConnection.  It sends nothing, takes no time and
\* changes nothing.
C8_ValidityIsStrict ==
    Called("check_access_token_validity") =>
        /\ call.requests = <<>>
        /\ call.returned = call.entered
        /\ Self = call.before
        /\ IF HadConnection
           THEN \E secs \in 0..MaxClock :
                    /\ secs * TicksPerSecond <= Elapsed
                    /\ Elapsed < (secs + 1) * TicksPerSecond
                    /\ call.result = Ok(secs < Window)
           ELSE call.result = BrokenConnection

\* The check was made exactly one window after the connect, and is false.
C8_Witness ==
    /\ Called("check_access_token_validity")
    /\ HadConnection
    /\ Window >= 1
    /\ Elapsed = Window * TicksPerSecond
    /\ call.result = Ok(FALSE)

\* A check made once the time since connected_at exceeds the window is false.
C9_FalseBeyondWindow ==
    (Called("check_access_token_validity") /\ HadConnection
        /\ Elapsed > Window * TicksPerSecond) => call.result = Ok(FALSE)

\* A check that follows a false one, with no successful connect in between,
\* is false.
C9_StaysFalse ==
    (Called("check_access_token_validity") /\ expired) => call.result = Ok(FALSE)

\* C9 as claimed: after any successful connect a check with zero elapsed
\* time is true, a check beyond the window is false, and checks stay false
\* until the next successful connect.
C9_TrueAtOnce ==
    /\ (Called("check_access_token_validity") /\ HadConnection /\ Elapsed = 0) =>
          call.result = Ok(TRUE)
    /\ C9_FalseBeyondWindow
    /\ C9_StaysFalse

\* C9 as the code has it: after a successful connect whose window
\* (expires_in_inactive) is at least one second a check with zero elapsed
\* time is true; for every window a check beyond it is false, and checks
\* stay false until the next successful connect.
C9_TrueAtOnceIfWindowPositive ==
    /\ (Called("check_access_token_validity") /\ HadConnection
          /\ Elapsed = 0 /\ Window >= 1) => call.result = Ok(TRUE)
    /\ C9_FalseBeyondWindow
    /\ C9_StaysFalse

\* A check beyond a window of at least one second is false.
C9_Witness ==
    /\ Called("check_access_token_validity")
    /\ HadConnection
    /\ Window >= 1
    /\ Elapsed > Window * TicksPerSecond
    /\ call.result = Ok(FALSE)
    /\ expired

\* C10: the connected flag implies a Connection State, in every state; a
\* freshly constructed client has neither.
C10_ConnectedImpliesConnection ==
    /\ connected => IsSome(connection)
    /\ Called("new") => (~connected /\ connection = None)

\* A connected client after a connect that failed.
C10_Witness ==
    /\ connected
    /\ IsSome(connection)
    /\ Called("connect")
    /\ Failed

\* C11: with a Connection State, test_connection sends one GET to the ping
\* endpoint with the stored access token as bearer token; it returns Ok(true)
\* exactly when the status is 200 and Ok(false) for every other status; the
\* client is left as it was.
C11_PingTrueIffStatus200 ==
    (Called("test_connection") /\ HadConnection) =>
        /\ call.requests =
              <<[method |-> "GET", url |-> call.before.base_url \o "user/ping",
                 bearer_auth |-> call.before.connection.val.access_token]>>
        /\ Answered => call.result = Ok(call.answers[1].status = 200)
        /\ call.result = Ok(TRUE) => (Answered /\ call.answers[1].status = 200)
        /\ Self = call.before

\* The ping of a connected client was answered with 401.
C11_Witness ==
    /\ Called("test_connection")
    /\ HadConnection
    /\ Answered
    /\ call.answers[1].status = 401
    /\ call.result = Ok(FALSE)

\* C12: get_code_url yields base_url, the authorize path with the client id,
\* and the redirect URI built from base_url again; for
\* "https://example.com/" and "abc" that is the URL of the specification.
\* It sends nothing, takes no time and changes nothing.
C12_CodeUrl ==
    Called("get_code_url") =>
        /\ call.result =
              Ok(base_url
                   \o "oauth/authorize?branding=full&response_type=code&client_id="
                   \o client_id \o "&redirect_uri=" \o base_url
                   \o "oauth/callback&scope=all")
        /\ (base_url = "https://example.com/" /\ client_id = "abc") =>
              call.result = Ok("https://example.com/oauth/authorize?branding=full&response_type=code&client_id=abc&redirect_uri=https://example.com/oauth/callback&scope=all")
        /\ call.requests = <<>>
        /\ call.returned = call.entered
        /\ Self = call.before

\* The URL was built on a connected client for the inputs of the
\* specification's example.
C12_Witness ==
    /\ Called("get_code_url")
    /\ base_url = "https://example.com/"
    /\ client_id = "abc"
    /\ IsSome(connection)

\* C13: what disconnect sends and returns is fixed by the client and the
\* answer of the revoke endpoint alone, whatever revoke_refresh is: one POST
\* to the revoke endpoint with the stored access token and the hint
\* "access_token", never the refresh token.
C13_RevokeRefreshIgnored ==
    (Called("disconnect") /\ HadConnection) =>
        LET self == call.before
            conn == self.connection.val
        IN  /\ call.requests =
                  <<[method |-> "POST", url |-> self.base_url \o "oauth/revoke",
                     form |-> [token |-> conn.access_token,
                               token_type_hint |-> "access_token",
                               client_id |-> self.client_id,
                               client_secret |-> self.client_secret]]>>
            /\ call.requests[1].form.token # conn.refresh_token
            /\ call.result =
                  IF ~call.answers[1].sent
                  THEN RequestFailed(call.answers[1].error)
                  ELSE IF call.answers[1].status = 200 THEN Ok(self)
                  ELSE BrokenConnection

\* disconnect(Some(true)) succeeded, having revoked the access token.
C13_Witness ==
    /\ Called("disconnect")
    /\ call.arg = Some(TRUE)
    /\ ~Failed
    /\ call.requests[1].form.token = connection.val.access_token

\* C14: disconnect gives the client back only on success.  With a
\* Connection State, a status other than 200 fails with BrokenConnection and
\* a transport failure with RequestFailed; after every failure, the missing
\* state included, the caller holds no client.
C14_DisconnectConsumes ==
    Called("disconnect") =>
        /\ (Answered /\ call.answers[1].status # 200) =>
              call.result = BrokenConnection
        /\ (call.answers # <<>> /\ ~call.answers[1].sent) =>
              IsErr(call.result, "RequestFailed")
        /\ ~HadConnection => Failed
        /\ Failed => ~owned
        /\ ~Failed => (owned /\ call.result.val = Self)

\* The revoke endpoint refused, and the client is gone.
C14_Witness ==
    /\ Called("disconnect")
    /\ HadConnection
    /\ Answered
    /\ call.answers[1].status = 401
    /\ ~owned

\* C15: the Connection State holds expires_in_inactive of the last
\* successful token response as access_token_validity and its expires_in as
\* refresh_token_validity, and check_access_token_validity compares the
\* whole seconds elapsed with that expires_in_inactive.
C15_SwappedLifetimes ==
    /\ IsSome(connection) = IsSome(issued)
    /\ IsSome(issued) =>
          /\ connection.val.access_token_validity = issued.val.expires_in_inactive
          /\ connection.val.refresh_token_validity = issued.val.expires_in
    /\ (Called("check_access_token_validity") /\ IsSome(issued)) =>
          \E secs \in 0..MaxClock :
              /\ secs * TicksPerSecond <= Elapsed
              /\ Elapsed < (secs + 1) * TicksPerSecond
              /\ call.result = Ok(secs < issued.val.expires_in_inactive)

\* A check made within expires_in but beyond expires_in_inactive is false.
C15_Witness ==
    /\ Called("check_access_token_validity")
    /\ IsSome(issued)
    /\ issued.val.expires_in_inactive * TicksPerSecond <= Elapsed
    /\ Elapsed < issued.val.expires_in * TicksPerSecond
    /\ call.result = Ok(FALSE)

\* C16: whenever connect(RefreshToken) sends a request, a connect has
\* succeeded before, and the refresh token in the request is the one of the
\* last successful token response, whatever happened in between.
C16_RefreshSendsLatestToken ==
    [][(/\ call'.op = "connect"
        /\ call'.returned = now'
        /\ call'.arg.type = "RefreshToken"
        /\ call'.requests # <<>>) =>
            /\ IsSome(issued)
            /\ call'.requests[1].form.refresh_token = issued.val.refresh_token]_vars

\* connect(RefreshToken) sent the stored refresh token and was issued
\* another one.
C16_Witness ==
    /\ Called("connect")
    /\ call.arg.type = "RefreshToken"
    /\ ~Failed
    /\ call.requests[1].form.refresh_token = "rt1"
    /\ issued.val.refresh_token = "rt2"

\* C17: the result of an answered exchange is fixed by the status and the
\* body: 200 with a token body succeeds, another status with a JSON object
\* is ProviderError, and a body that does not decode for its status is
\* RequestFailed.
C17_ParserClassifies ==
    (Called("connect") /\ Answered) =>
        LET status == call.answers[1].status
            body == call.answers[1].body
            decodes == IF status = 200 THEN body \in TokenBodies
                       ELSE body \in TokenBodies \cup ErrorBodies
        IN  /\ (status = 200 /\ decodes) =>
                (/\ ~Failed
                 /\ call.result.val.access_token = body.access_token
                 /\ call.result.val.refresh_token = body.refresh_token)
            /\ (status # 200 /\ decodes) => IsErr(call.result, "DRACOONErrror")
            /\ ~decodes => IsErr(call.result, "RequestFailed")

\* The token endpoint answered 200 with an error object.
C17_Witness ==
    /\ Called("connect")
    /\ Answered
    /\ call.answers[1].status = 200
    /\ call.answers[1].body \in ErrorBodies
    /\ IsErr(call.result, "RequestFailed")

\* C18: the request of a connect is the one of its flow selector: the
\* password flow posts username, password and grant_type "password" with a
\* Basic header of base64(client_id:client_secret); the authorization-code
\* flow posts the client credentials, the code, grant_type
\* "authorization_code" and the callback URL; the refresh flow posts the
\* client credentials, the stored refresh token and grant_type
\* "refresh_token".
C18_RequestOfFlow ==
    (Called("connect") /\ call.requests # <<>>) =>
        LET self == call.before
            req == call.requests[1]
        IN  /\ req.method = "POST"
            /\ req.url = self.base_url \o "oauth/token"
            /\ call.arg.type = "PasswordFlow" =>
                /\ req.form = [username |-> call.arg.user_name,
                               password |-> call.arg.password,
                               grant_type |-> "password"]
                /\ req.authorization =
                      Some(<<"Basic",
                             Base64Encode(self.client_id \o ":" \o self.client_secret)>>)
            /\ call.arg.type = "AuthCode" =>
                /\ req.form = [client_id |-> self.client_id,
                               client_secret |-> self.client_secret,
                               code |-> call.arg.auth_code,
                               grant_type |-> "authorization_code",
                               redirect_uri |-> self.base_url \o "oauth/callback"]
                /\ req.authorization = None
            /\ call.arg.type = "RefreshToken" =>
                /\ req.form = [client_id |-> self.client_id,
                               client_secret |-> self.client_secret,
                               refresh_token |-> self.connection.val.refresh_token,
                               grant_type |-> "refresh_token"]
                /\ req.authorization = None

\* An authorization-code connect sent its request.
C18_Witness ==
    /\ Called("connect")
    /\ call.arg.type = "AuthCode"
    /\ call.requests # <<>>
    /\ call.requests[1].form.grant_type = "authorization_code"

\* C19: a call sends at most one request, to the endpoint of its operation
\* and, for connect, with the grant type of its selector; a request the
\* transport fails to send is not repeated and is reported as RequestFailed.
C19_OneRequestNoRetry ==
    /\ Len(call.requests) <= 1
    /\ Len(call.answers) = Len(call.requests)
    /\ call.requests # <<>> =>
          LET req == call.requests[1]
          IN  /\ call.op \in {"connect", "test_connection", "disconnect"}
              /\ Called("connect") =>
                    /\ req.method = "POST"
                    /\ req.url = call.before.base_url \o "oauth/token"
                    /\ req.form.grant_type =
                          CASE call.arg.type = "PasswordFlow" -> "password"
                            [] call.arg.type = "AuthCode" -> "authorization_code"
                            [] call.arg.type = "RefreshToken" -> "refresh_token"
              /\ Called("test_connection") =>
                    /\ req.method = "GET"
                    /\ req.url = call.before.base_url \o "user/ping"
              /\ Called("disconnect") =>
                    /\ req.method = "POST"
                    /\ req.url = call.before.base_url \o "oauth/revoke"
              /\ ~call.answers[1].sent =>
                    call.result = RequestFailed(call.answers[1].error)

\* The one request of a connect could not be sent.
C19_Witness ==
    /\ Called("connect")
    /\ Len(call.requests) = 1
    /\ ~call.answers[1].sent
    /\ IsErr(call.result, "RequestFailed")

\* C20: connect fails with BrokenConnection only as connect(RefreshToken)
\* on a client without a Connection State; when the handler has a token
\* response, connect returns the state it installed; no call ends in
\* MissingArguments.
C20_DefensiveBranchDead ==
    /\ ~IsErr(call.result, "MissingArguments")
    /\ (Called("connect") /\ call.result = BrokenConnection) =>
          (call.arg.type = "RefreshToken" /\ ~HadConnection)
    /\ (Called("connect") /\ Answered /\ call.answers[1].status = 200
          /\ call.answers[1].body \in TokenBodies) =>
          (IsSome(connection) /\ call.result = Ok(connection.val))

\* A password-flow connect on a fresh client returned the installed state.
C20_Witness ==
    /\ Called("connect")
    /\ call.arg.type = "PasswordFlow"
    /\ ~HadConnection
    /\ IsSome(connection)
    /\ call.result = Ok(connection.val)

====
